---- MODULE Spec2Model ----
(***************************************************************************)
(* A model of zt_dlipower's PowerSwitch client (src/zt_dlipower/dlipower.py)*)
(* talking to a Digital Loggers web power switch.                          *)
(*                                                                         *)
(* Python values are tagged records: [t |-> "int", v |-> 3],               *)
(* [t |-> "str", v |-> <<"A">>] (a string is its sequence of characters),  *)
(* [t |-> "none"], [t |-> "bool", v |-> TRUE], [t |-> "list", v |-> <<>>]. *)
(* Every HTTP request is one step of the environment: its outcome is drawn *)
(* from the outcomes the requests library can produce.                     *)
(***************************************************************************)
EXTENDS Integers, Sequences, FiniteSets, TLC

\* ------------------------------------------------------------- bounds
MaxRetries == 2      \* largest configured retry budget explored
MaxOutlets == 3      \* most outlet rows the device ever lists

\* ------------------------------------------------------ python values
None == [t |-> "none"]
PyInt(n) == [t |-> "int", v |-> n]
PyStr(s) == [t |-> "str", v |-> s]
PyBool(b) == [t |-> "bool", v |-> b]
PyList(l) == [t |-> "list", v |-> l]
PyBytes(p) == [t |-> "bytes", v |-> p]

Digits == <<"0", "1", "2", "3", "4", "5", "6", "7", "8", "9">>
IsDigit(c) == \E i \in 1..10 : Digits[i] = c
DigitVal(c) == (CHOOSE i \in 1..10 : Digits[i] = c) - 1

RECURSIVE DecStr(_)
DecStr(n) == IF n < 10 THEN <<Digits[n + 1]>>
             ELSE DecStr(n \div 10) \o <<Digits[(n % 10) + 1]>>

\* str(n) of an int
str(n) == IF n < 0 THEN <<"-">> \o DecStr(0 - n) ELSE DecStr(n)

IsSpace(c) == c = " "

RECURSIVE lstrip(_)
lstrip(s) == IF s # <<>> /\ IsSpace(Head(s)) THEN lstrip(Tail(s)) ELSE s

RECURSIVE rstrip(_)
rstrip(s) == IF s # <<>> /\ IsSpace(s[Len(s)])
             THEN rstrip(SubSeq(s, 1, Len(s) - 1)) ELSE s

\* str.strip()
strip(s) == rstrip(lstrip(s))

RECURSIVE DecVal(_)
DecVal(s) == IF s = <<>> THEN 0
             ELSE 10 * DecVal(SubSeq(s, 1, Len(s) - 1)) + DigitVal(s[Len(s)])

\* int(x): an int is itself; a str is stripped, takes an optional sign and
\* must then be all decimal digits, else ValueError; None is a TypeError.
int(x) ==
    IF x.t = "int" THEN [exc |-> "none", v |-> x.v]
    ELSE IF x.t = "str" THEN
        LET s == strip(x.v)
            signed == s # <<>> /\ Head(s) \in {"-", "+"}
            body == IF signed THEN Tail(s) ELSE s
        IN IF body # <<>> /\ \A i \in 1..Len(body) : IsDigit(body[i])
           THEN [exc |-> "none",
                 v |-> IF signed /\ Head(s) = "-" THEN 0 - DecVal(body) ELSE DecVal(body)]
           ELSE [exc |-> "ValueError", v |-> 0]
    ELSE [exc |-> "TypeError", v |-> 0]

\* truth value of a python object
truthy(x) ==
    CASE x.t = "none" -> FALSE
      [] x.t = "int" -> x.v # 0
      [] x.t = "bool" -> x.v
      [] x.t = "str" -> x.v # <<>>
      [] x.t = "list" -> x.v # <<>>
      [] x.t = "bytes" -> ~x.v.empty
      [] OTHER -> TRUE

\* --------------------------------------------- requests' exception classes
\* the direct base classes of the requests.exceptions the calls can raise
ExcBases(c) ==
    CASE c = "ConnectTimeout" -> {"ConnectionError", "Timeout"}
      [] c = "ConnectionError" -> {"RequestException"}
      [] c = "ReadTimeout" -> {"Timeout"}
      [] c = "Timeout" -> {"RequestException"}
      [] OTHER -> {}

RECURSIVE IsInstance(_, _)
IsInstance(c, classes) ==
    c \in classes \/ \E b \in ExcBases(c) : IsInstance(b, classes)

TransportFailures == {"ConnectTimeout", "ConnectionError", "ReadTimeout"}

\* ------------------------------------------------------------ the device
\* The switch's web server, the environment of the client.  It lists `count`
\* outlets numbered 1..count; `layout` is the shape of index.htm it serves:
\* the admin table, the restricted-user table, or a 200 page with no outlet
\* table at all (an error or login page).
Layouts == {"admin", "user", "none"}

ON == <<"O", "N">>
OFF == <<"O", "F", "F">>
Unknown == <<"U", "n", "k", "n", "o", "w", "n">>

Letters == <<"A", "B", "C", "D", "E", "F", "G">>

\* the outlet labels the device may carry: all distinct; two equal; one equal
\* to another outlet's number; one equal to another up to blanks; each equal
\* to its own number; one left empty
NameTables ==
    { [i \in 1..MaxOutlets |-> PyStr(<<Letters[i]>>)],
      [i \in 1..MaxOutlets |-> PyStr(<<Letters[IF i = 2 THEN 1 ELSE i]>>)],
      [i \in 1..MaxOutlets |-> IF i = 1 THEN PyStr(str(2)) ELSE PyStr(<<Letters[i]>>)],
      [i \in 1..MaxOutlets |-> IF i = 2 THEN PyStr(<<" ", "A", " ">>) ELSE PyStr(<<Letters[i]>>)],
      [i \in 1..MaxOutlets |-> PyStr(str(i))],
      [i \in 1..MaxOutlets |-> IF i = 1 THEN None ELSE PyStr(<<Letters[i]>>)] }

StateTables == { [i \in 1..MaxOutlets |-> IF i % 2 = 1 THEN OFF ELSE ON] }

Devices == [count : 0..MaxOutlets, layout : Layouts,
            names : NameTables, state : StateTables]

\* the devices whose labels are all distinct or all the outlets' own numbers
PlainDevices ==
    {d \in Devices : \/ \A i \in 1..MaxOutlets : d.names[i] = PyStr(<<Letters[i]>>)
                     \/ \A i \in 1..MaxOutlets : d.names[i] = PyStr(str(i))}

\* One table row as the parser sees it: the number of td cells, the strings
\* of the first two cells, whether the third holds a font element and its text.
HeaderRow == [ncols |-> 0, number |-> None, name |-> None, font |-> FALSE, state |-> <<>>]

OutletRow(d, i) ==
    [ncols |-> 5,
     number |-> PyStr(IF d.layout = "admin" THEN str(i) ELSE <<" ">> \o str(i)),
     name |-> d.names[i],
     font |-> TRUE,
     state |-> d.state[i]]

\* index.htm as served by device d: empty says the body has no bytes, td1 says a td cell with text "1" exists,
\* thHash that a th cell with text "#" exists.
Render(d) ==
    IF d.layout = "none"
    THEN [empty |-> FALSE, td1 |-> FALSE, thHash |-> FALSE, rows |-> <<>>]
    ELSE LET rows == <<HeaderRow>> \o [i \in 1..d.count |-> OutletRow(d, i)]
         IN [empty |-> FALSE,
             td1 |-> \E i \in 1..Len(rows) :
                        /\ rows[i].ncols = 5
                        /\ PyStr(<<"1">>) \in {rows[i].number, rows[i].name},
             thHash |-> d.layout = "user",
             rows |-> rows]

\* ------------------------------------------------------------------ geturl
\* what one HTTP attempt can meet: a transport exception, a response with a
\* status other than 200, or a 200 response
AttemptOutcomes == TransportFailures \cup {"http_err", "ok"}

\* the retry loop with the except clause of login()'s GET: a read timeout
\* is not caught
RECURSIVE geturl_loop_narrow(_, _, _, _, _, _)
geturl_loop_narrow(retry_num, retries_, outs, cookie, body, log) ==
    IF retry_num >= retries_ THEN [exc |-> "none", result |-> None, log |-> log]
    ELSE LET o == outs[retry_num + 1]
             made == Append(log, [transport |-> IF cookie THEN "session" ELSE "basic",
                                  outcome |-> o])
         IN IF o \in TransportFailures
            THEN IF IsInstance(o, {"ConnectTimeout", "ConnectionError"})
                 THEN geturl_loop_narrow(retry_num + 1, retries_, outs, cookie, body, made)
                 ELSE [exc |-> o, result |-> None, log |-> made]
            ELSE IF o = "ok"
                 THEN [exc |-> "none", result |-> PyBytes(body), log |-> made]
                 ELSE geturl_loop_narrow(retry_num + 1, retries_, outs, cookie, body, made)

\* the retry loop without the break of line 483: it keeps the content of a
\* 200 response and goes on to the next attempt
RECURSIVE geturl_loop_nobreak(_, _, _, _, _, _)
geturl_loop_nobreak(retry_num, retries_, outs, cookie, body, log) ==
    IF retry_num >= retries_
    THEN [exc |-> "none",
          result |-> IF \E i \in 1..Len(log) : log[i].outcome = "ok"
                     THEN PyBytes(body) ELSE None,
          log |-> log]
    ELSE geturl_loop_nobreak(retry_num + 1, retries_, outs, cookie, body,
                             Append(log, [transport |-> IF cookie THEN "session" ELSE "basic",
                                          outcome |-> outs[retry_num + 1]]))

\* lines 455-483: the retry loop.  outs[i] is what attempt i meets, body the
\* content a 200 response carries; log lists the attempts made, exc is the
\* exception that leaves the loop ("none": the loop ends).
RECURSIVE geturl_loop(_, _, _, _, _, _)
geturl_loop(retry_num, retries_, outs, cookie, body, log) ==
    IF retry_num >= retries_ THEN [exc |-> "none", result |-> None, log |-> log]
    ELSE LET o == outs[retry_num + 1]
             made == Append(log, [transport |-> IF cookie THEN "session" ELSE "basic",
                                  outcome |-> o])
         IN IF o \in TransportFailures
            THEN IF IsInstance(o, {"RequestException"})
                 THEN geturl_loop(retry_num + 1, retries_, outs, cookie, body, made)
                 ELSE [exc |-> o, result |-> None, log |-> made]
            ELSE IF o = "ok"
                 THEN [exc |-> "none", result |-> PyBytes(body), log |-> made]
                 ELSE geturl_loop(retry_num + 1, retries_, outs, cookie, body, made)

\* lines 447-487
geturl(retries_, outs, secure, session_, body) ==
    geturl_loop(0, retries_, outs, secure /\ session_ # "None", body, <<>>)

\* --------------------------------------------------------------- statuslist
upper_char(c) ==
    CASE c = "o" -> "O" [] c = "n" -> "N" [] c = "f" -> "F" [] OTHER -> c

upper(s) == [i \in 1..Len(s) |-> upper_char(s[i])]

\* lines 578-584: the rows with exactly five cells, in page order
RECURSIVE parse_rows(_, _)
parse_rows(rows, acc) ==
    IF rows = <<>> THEN [exc |-> "none", outlets |-> acc]
    ELSE LET r == Head(rows) IN
         IF r.ncols # 5 THEN parse_rows(Tail(rows), acc)
         ELSE IF ~r.font THEN [exc |-> "AttributeError", outlets |-> <<>>]
         ELSE IF int(r.number).exc # "none"
              THEN [exc |-> int(r.number).exc, outlets |-> <<>>]
         ELSE parse_rows(Tail(rows),
                         Append(acc, [number |-> int(r.number).v,
                                      name |-> r.name,
                                      state |-> upper(r.state)]))

\* statuslist() storing the length of every list it parses in __len
statuslist_recount(g, admin, len_) ==
    IF g.exc # "none" THEN [exc |-> g.exc, outlets |-> <<>>, admin |-> admin, len |-> len_]
    ELSE IF ~truthy(g.result)
    THEN [exc |-> "none", outlets |-> <<>>, admin |-> admin, len |-> len_]
    ELSE LET page == g.result.v
             admin2 == IF page.td1 THEN admin ELSE FALSE
         IN IF ~page.td1 /\ ~page.thHash
            THEN [exc |-> "none", outlets |-> <<>>, admin |-> admin2, len |-> len_]
            ELSE LET p == parse_rows(page.rows, <<>>) IN
                 IF p.exc # "none"
                 THEN [exc |-> p.exc, outlets |-> <<>>, admin |-> admin2, len |-> len_]
                 ELSE [exc |-> "none", outlets |-> p.outlets, admin |-> admin2,
                       len |-> Len(p.outlets)]

\* statuslist() setting _is_admin again when it finds the admin anchor
statuslist_readmin(g, admin, len_) ==
    IF g.exc # "none" THEN [exc |-> g.exc, outlets |-> <<>>, admin |-> admin, len |-> len_]
    ELSE IF ~truthy(g.result)
    THEN [exc |-> "none", outlets |-> <<>>, admin |-> admin, len |-> len_]
    ELSE LET page == g.result.v
             admin2 == page.td1
         IN IF ~page.td1 /\ ~page.thHash
            THEN [exc |-> "none", outlets |-> <<>>, admin |-> admin2, len |-> len_]
            ELSE LET p == parse_rows(page.rows, <<>>) IN
                 IF p.exc # "none"
                 THEN [exc |-> p.exc, outlets |-> <<>>, admin |-> admin2, len |-> len_]
                 ELSE [exc |-> "none", outlets |-> p.outlets, admin |-> admin2,
                       len |-> IF len_ = 0 THEN Len(p.outlets) ELSE len_]

\* statuslist() without its second strategy: no admin anchor, no outlets
statuslist_admin_only(g, admin, len_) ==
    IF g.exc # "none" THEN [exc |-> g.exc, outlets |-> <<>>, admin |-> admin, len |-> len_]
    ELSE IF ~truthy(g.result)
    THEN [exc |-> "none", outlets |-> <<>>, admin |-> admin, len |-> len_]
    ELSE LET page == g.result.v
             admin2 == IF page.td1 THEN admin ELSE FALSE
         IN IF ~page.td1
            THEN [exc |-> "none", outlets |-> <<>>, admin |-> admin2, len |-> len_]
            ELSE LET p == parse_rows(page.rows, <<>>) IN
                 IF p.exc # "none"
                 THEN [exc |-> p.exc, outlets |-> <<>>, admin |-> admin2, len |-> len_]
                 ELSE [exc |-> "none", outlets |-> p.outlets, admin |-> admin2,
                       len |-> IF len_ = 0 THEN Len(p.outlets) ELSE len_]

\* lines 558-587: statuslist() when its geturl call ends as g, with the
\* client's _is_admin and __len before the call; gives the result and both
\* after it.
statuslist(g, admin, len_) ==
    IF g.exc # "none" THEN [exc |-> g.exc, outlets |-> <<>>, admin |-> admin, len |-> len_]
    ELSE IF ~truthy(g.result)
    THEN [exc |-> "none", outlets |-> <<>>, admin |-> admin, len |-> len_]
    ELSE LET page == g.result.v
             admin2 == IF page.td1 THEN admin ELSE FALSE
         IN IF ~page.td1 /\ ~page.thHash
            THEN [exc |-> "none", outlets |-> <<>>, admin |-> admin2, len |-> len_]
            ELSE LET p == parse_rows(page.rows, <<>>) IN
                 IF p.exc # "none"
                 THEN [exc |-> p.exc, outlets |-> <<>>, admin |-> admin2, len |-> len_]
                 ELSE [exc |-> "none", outlets |-> p.outlets, admin |-> admin2,
                       len |-> IF len_ = 0 THEN Len(p.outlets) ELSE len_]

\* ------------------------------------------------------------------- login
LoginGetOutcomes == TransportFailures \cup {"redirect", "page"}
LoginPostOutcomes == TransportFailures \cup {"http_err", "ok_cookie", "ok_nocookie"}

\* login() marking the session secure on any 200 answer to the POST
login_any200(get1, get2, challenge, post, url) ==
    LET fresh == [exc |-> "none", secure_login |-> FALSE, session |-> "Session",
                  base_url |-> url, post |-> "none", answered |-> FALSE]
        got == IF get1 = "redirect" THEN get2 ELSE get1
        url2 == IF get1 = "redirect" THEN "location" ELSE url
        heard == get1 \in {"redirect", "page"}
    IN IF got \in TransportFailures
       THEN IF IsInstance(got, {"ConnectTimeout", "ConnectionError"})
            THEN [fresh EXCEPT !.session = "None", !.base_url = url2, !.answered = heard]
            ELSE [fresh EXCEPT !.exc = got, !.base_url = url2, !.answered = heard]
       ELSE IF ~challenge
            THEN [fresh EXCEPT !.exc = "KeyError", !.base_url = url2, !.answered = TRUE]
       ELSE IF post \in TransportFailures
            THEN IF IsInstance(post, {"ConnectTimeout"})
                 THEN [fresh EXCEPT !.session = "None", !.base_url = url2,
                                    !.post = post, !.answered = TRUE]
                 ELSE [fresh EXCEPT !.exc = post, !.base_url = url2,
                                    !.post = post, !.answered = TRUE]
       ELSE [fresh EXCEPT !.secure_login = (post \in {"ok_cookie", "ok_nocookie"}),
                          !.base_url = url2, !.post = post, !.answered = TRUE]

\* lines 348-408.  get1 is what the GET of base_url meets, get2 what the GET
\* of the redirect target meets, challenge whether the page has an input
\* named Challenge, post what the POST to login.tgi meets.  exc is the
\* exception login() lets through ("none": it returns); post is the outcome
\* of the POST if it was sent.
login(get1, get2, challenge, post, url) ==
    LET fresh == [exc |-> "none", secure_login |-> FALSE, session |-> "Session",
                  base_url |-> url, post |-> "none", answered |-> FALSE]
        got == IF get1 = "redirect" THEN get2 ELSE get1
        url2 == IF get1 = "redirect" THEN "location" ELSE url
        heard == get1 \in {"redirect", "page"}
    IN IF got \in TransportFailures
       THEN IF IsInstance(got, {"ConnectTimeout", "ConnectionError"})
            THEN [fresh EXCEPT !.session = "None", !.base_url = url2, !.answered = heard]
            ELSE [fresh EXCEPT !.exc = got, !.base_url = url2, !.answered = heard]
       ELSE IF ~challenge
            THEN [fresh EXCEPT !.exc = "KeyError", !.base_url = url2, !.answered = TRUE]
       ELSE IF post \in TransportFailures
            THEN IF IsInstance(post, {"ConnectTimeout"})
                 THEN [fresh EXCEPT !.session = "None", !.base_url = url2,
                                    !.post = post, !.answered = TRUE]
                 ELSE [fresh EXCEPT !.exc = post, !.base_url = url2,
                                    !.post = post, !.answered = TRUE]
       ELSE [fresh EXCEPT !.secure_login = (post = "ok_cookie"), !.base_url = url2,
                          !.post = post, !.answered = TRUE]

\* what the device and the network do to one login(): a request that is
\* not sent has no outcome ("unsent")
LoginScripts ==
    {e \in [get1 : LoginGetOutcomes, get2 : (LoginGetOutcomes \ {"redirect"}) \cup {"unsent"},
            challenge : BOOLEAN, post : LoginPostOutcomes \cup {"unsent"}] :
        LET got == IF e.get1 = "redirect" THEN e.get2 ELSE e.get1 IN
        /\ (e.get2 = "unsent") = (e.get1 # "redirect")
        /\ got # "page" => ~e.challenge
        /\ (e.post = "unsent") = ~(got = "page" /\ e.challenge)}

\* --------------------------------------------------------- determine_outlet
\* lines 496-504: the first plug the identifier matches, 0 if none
RECURSIVE match_plug(_, _)
match_plug(outlet, outlets) ==
    IF outlets = <<>> THEN 0
    ELSE LET plug == Head(outlets)
             plug_name == plug.name
             plug_number == plug.number
         IN IF outlet.t = "str" /\ truthy(plug_name)
               /\ strip(plug_name.v) = strip(outlet.v)
            THEN plug_number
            ELSE IF outlet.t = "int" /\ plug_number # 0 /\ plug_number = outlet.v
            THEN plug_number
            ELSE match_plug(outlet, Tail(outlets))

DLIPowerException(msg) == [t |-> "exc", cls |-> "DLIPowerException", msg |-> msg]
PyExc(cls) == [t |-> "exc", cls |-> cls, msg |-> ""]

Returns(v) == [kind |-> "return", val |-> v]
Raises(e) == [kind |-> "raise", val |-> e]

\* lines 495-507, up to the evaluation of len(self): the result of
\* determine_outlet, or "len" when the bounds check needs the outlet count
determine_outlet(outlet, outlets) ==
    LET hit == IF truthy(outlet) /\ outlets # <<>> /\ outlet.t \in {"int", "str"}
               THEN match_plug(outlet, outlets) ELSE 0
        outlet_int == int(outlet)
    IN IF hit # 0 THEN Returns(PyInt(hit))
       ELSE IF outlet_int.exc = "ValueError"
            THEN Raises(DLIPowerException("unknown"))
       ELSE IF outlet_int.exc # "none" THEN Raises(PyExc(outlet_int.exc))
       ELSE IF outlet_int.v <= 0 THEN Raises(DLIPowerException("out of range"))
       ELSE [kind |-> "len", val |-> PyInt(outlet_int.v)]

\* the bounds check refusing the last outlet
bounds_check_short(outlet_int, length) ==
    IF outlet_int <= 0 \/ outlet_int >= length
    THEN Raises(DLIPowerException("out of range"))
    ELSE Returns(PyInt(outlet_int))

\* lines 507-509 once len(self) is known
bounds_check(outlet_int, length) ==
    IF outlet_int <= 0 \/ outlet_int > length
    THEN Raises(DLIPowerException("out of range"))
    ELSE Returns(PyInt(outlet_int))

\* determine_outlet, lines 489-511, when statuslist() gives outlets and
\* len(self) gives length
resolve(outlet, outlets, length) ==
    LET c == determine_outlet(outlet, outlets)
    IN IF c.kind = "len" THEN bounds_check(c.val.v, length) ELSE c

\* lines 606-610 (status) on the resolved outlet and the list just read
RECURSIVE plug_state(_, _)
plug_state(outlet, outlets) ==
    IF outlets = <<>> THEN Unknown
    ELSE IF Head(outlets).number = outlet THEN Head(outlets).state
    ELSE plug_state(outlet, Tail(outlets))

status_result(outlet, outlets) ==
    IF outlets # <<>> /\ outlet # 0 THEN PyStr(plug_state(outlet, outlets))
    ELSE PyStr(Unknown)

\* lines 517-521 (get_outlet_name) on the resolved outlet and the list just
\* read: the name cell of the plug, which is None for an empty cell
RECURSIVE plug_name(_, _)
plug_name(outlet, outlets) ==
    IF outlets = <<>> THEN PyStr(Unknown)
    ELSE IF Head(outlets).number = outlet THEN Head(outlets).name
    ELSE plug_name(outlet, Tail(outlets))

name_result(outlet, outlets) ==
    IF outlets # <<>> /\ outlet # 0 THEN plug_name(outlet, outlets)
    ELSE PyStr(Unknown)

\* ---------------------------------------------------------------- commands
\* off() comparing the wrong way round
off_result_plain(status_) == PyBool(status_ = PyStr(OFF))

\* line 535: return self.status(outlet) != "OFF"
off_result(status_) == PyBool(status_ # PyStr(OFF))

\* line 543: return self.status(outlet) != "ON"
on_result(status_) == PyBool(status_ # PyStr(ON))

\* line 527: return self.get_outlet_name(outlet) == name
set_outlet_name_result(got, name) == PyBool(got = PyStr(name))

\* command_on_outlets handing on whatever the operation returned
single_result_raw(result) == result

\* lines 621-623: a bool as it is, anything else in a list
single_result(result) == IF result.t = "bool" THEN result ELSE PyList(<<result>>)

\* "%s" % outlet, line 526
format_s(x) ==
    CASE x.t = "int" -> str(x.v)
      [] x.t = "str" -> x.v
      [] OTHER -> <<"N", "o", "n", "e">>

\* urllib.parse.quote: a blank becomes %20, letters and digits stay
RECURSIVE quote(_)
quote(s) ==
    IF s = <<>> THEN <<>>
    ELSE (IF Head(s) = " " THEN <<"%", "2", "0">> ELSE <<Head(s)>>) \o quote(Tail(s))

\* the device decoding the query string
RECURSIVE unquote(_)
unquote(s) ==
    IF s = <<>> THEN <<>>
    ELSE IF Len(s) >= 3 /\ SubSeq(s, 1, 3) = <<"%", "2", "0">>
         THEN <<" ">> \o unquote(SubSeq(s, 4, Len(s)))
         ELSE <<Head(s)>> \o unquote(Tail(s))

\* The device serving outlet?n=ON or outlet?n=OFF: it switches outlet n if
\* it has one.
Switched(d, n, to) ==
    IF n \in 1..d.count THEN [d EXCEPT !.state[n] = to] ELSE d

\* The device serving unitnames.cgi?outname<who>=<quoted>: it renames the
\* outlet whose number <who> spells; an empty name leaves the name cell of
\* index.htm empty.
Renamed(d, who, quoted) ==
    LET n == IF who # <<>> /\ \A i \in 1..Len(who) : IsDigit(who[i]) THEN DecVal(who) ELSE 0
        new == unquote(quoted)
    IN IF n \in 1..d.count
       THEN [d EXCEPT !.names[n] = IF new = <<>> THEN None ELSE PyStr(new)]
       ELSE d

\* what an operation did, in order: requests sent (for a rename the text
\* between outname and = in the url), outlets resolved, values read, results
Event(e, op, v) == [e |-> e, op |-> op, v |-> v]

\* ------------------------------------------------------------------ state
VARIABLES
    constructed,   \* "no", "yes", or "aborted" when __init__ raised
    retries,       \* self.retries
    secure_login,  \* self.secure_login
    session,       \* self.session: "Session" or "None"
    base_url,      \* self.base_url: "configured" or the redirect's "location"
    _is_admin,     \* self._is_admin
    __len,         \* self.__len, the cached outlet count
    dev,           \* the device
    stack,         \* the calls in progress, innermost first
    regs,          \* the running operation, its argument and its locals
    ret,           \* how the last outward operation ended, until the next call:
                   \* its result, the attempts of a geturl call, the outcome
                   \* of the POST of a login
    answered,      \* some request of this client has got an HTTP response
    probe,         \* one outlet record resolved by its name and by its number
    parsed,        \* one page given to statuslist() and what came of it
    last,          \* the last on, off or set_outlet_name the caller completed
    pool,          \* the worker processes of a running command_on_outlets
    cli            \* the command line main() was given and the exit status

vars == <<constructed, retries, secure_login, session, base_url, _is_admin, __len,
          dev, stack, regs, ret, answered, probe, parsed, last, pool, cli>>

\* what only the callers of the client keep
notes == <<probe, parsed, last, pool, cli>>

client == <<retries, secure_login, session, base_url>>

\* ----------------------------------------------------------------- inputs
RetryBudgets == {1, MaxRetries}

\* the outlet identifiers callers pass: numbers, names and number texts
Identifiers ==
    {PyInt(n) : n \in (0 - 1)..(MaxOutlets + 1)}
    \cup {PyStr(str(n)) : n \in {0, 1, MaxOutlets, MaxOutlets + 1}}
    \cup {PyStr(<<"A">>), PyStr(<<" ", "A", " ">>), PyStr(<<Letters[MaxOutlets]>>),
          PyStr(<<"Z">>), PyStr(<<>>), None}

NoRegs == [op |-> "none", outlet |-> None, outlet_int |-> 0, resolved |-> 0,
           name |-> <<>>, command |-> "none", trail |-> <<>>, clean |-> TRUE, pre |-> <<>>]
NoRet == [op |-> "none", arg |-> None, kind |-> "none", val |-> None, log |-> <<>>,
          post |-> "none",
          name |-> <<>>, command |-> "none", trail |-> <<>>, clean |-> TRUE, pre |-> <<>>]
NoProbe == [outlets |-> <<>>, length |-> 0, plug |-> 0,
            by_name |-> Returns(None), by_number |-> Returns(None)]

NoParsed == [kind |-> "none", damage |-> "none", row |-> 0, admin |-> FALSE,
             exc |-> "none", outlets |-> <<>>]
NoLast == [op |-> "none", arg |-> None, name |-> <<>>, val |-> None]
NoPool == [command |-> "none", outlets |-> <<>>, who |-> 0, ctx |-> <<>>,
           results |-> <<>>, order |-> <<>>, parent |-> [len |-> 0, admin |-> FALSE]]
NoCli == [operation |-> "none", args |-> <<>>, exit |-> None]

Init ==
    /\ constructed = "no"
    /\ retries = 0
    /\ secure_login = FALSE
    /\ session = "None"
    /\ base_url = "configured"
    /\ _is_admin = FALSE
    /\ __len = 0
    /\ dev \in PlainDevices
    /\ stack = <<>>
    /\ regs = NoRegs
    /\ ret = NoRet
    /\ answered = FALSE
    /\ probe = NoProbe
    /\ parsed = NoParsed
    /\ last = NoLast
    /\ pool = NoPool
    /\ cli = NoCli

\* -------------------------------------------------------- returns and raises
\* A completion c reaches the frames below the one that ended.  An exception
\* unwinds them all (no frame of the client catches one); a value resumes the
\* frame on top, named by the line that made the call: line 507 compares it
\* with outlet_int, line 604 keeps it as the resolved outlet and goes on to
\* the statuslist() of line 605, lines 534 and 542 put it into the url of the
\* command, and so on, until a frame has to make a request of its own.
RECURSIVE Deliver(_, _, _)
Deliver(stk, c, r) ==
    IF stk = <<>> \/ c.kind = "raise" THEN [stack |-> <<>>, regs |-> r, out |-> c]
    ELSE LET f == Head(stk)
             below == Tail(stk)
         IN
         CASE f = "determine_outlet:507" ->
                Deliver(below, bounds_check(r.outlet_int, c.val.v), r)
           [] f = "status:604" ->
                [stack |-> <<"status">> \o below,
                 regs |-> [r EXCEPT !.resolved = c.val.v], out |-> c]
           [] f = "get_outlet_name:515" ->
                [stack |-> <<"get_outlet_name">> \o below,
                 regs |-> [r EXCEPT !.resolved = c.val.v], out |-> c]
           [] f = "off:534" ->
                [stack |-> <<"off:geturl">> \o below,
                 regs |-> [r EXCEPT !.resolved = c.val.v], out |-> c]
           [] f = "on:542" ->
                [stack |-> <<"on:geturl">> \o below,
                 regs |-> [r EXCEPT !.resolved = c.val.v], out |-> c]
           [] f = "off:535" ->
                Deliver(below, Returns(off_result(c.val)),
                        [r EXCEPT !.trail = @ \o <<Event("read", "status", c.val),
                                                   Event("ret", "off", off_result(c.val))>>])
           [] f = "on:543" ->
                Deliver(below, Returns(on_result(c.val)),
                        [r EXCEPT !.trail = @ \o <<Event("read", "status", c.val),
                                                   Event("ret", "on", on_result(c.val))>>])
           [] f = "cycle:552" ->
                IF truthy(c.val) THEN Deliver(below, Returns(PyBool(TRUE)), r)
                ELSE [stack |-> <<"determine_outlet", "on:542", "cycle:555">> \o below,
                      regs |-> [r EXCEPT !.trail = Append(@, Event("sleep", "cycle", None))],
                      out |-> c]
           [] f = "cycle:555" -> Deliver(below, Returns(PyBool(FALSE)), r)
           [] f = "set_outlet_name:525" ->
                [stack |-> <<"set_outlet_name:geturl">> \o below,
                 regs |-> [r EXCEPT !.trail = Append(@, Event("resolved", "determine_outlet",
                                                              c.val))],
                 out |-> c]
           [] f = "set_outlet_name:527" ->
                Deliver(below, Returns(set_outlet_name_result(c.val, r.name)),
                        [r EXCEPT !.trail = Append(@, Event("read", "get_outlet_name", c.val))])
           [] f = "command_on_outlets:620" ->
                Deliver(below, Returns(single_result(c.val)),
                        [r EXCEPT !.trail = Append(@, Event("raw", r.command, c.val))])

\* the step that ends with d == Deliver(...): either the operation is over
\* and ret holds its end for the caller (with the attempts, if it was a
\* geturl call), or the next call in it is pending
Proceed(d, log) ==
    IF d.stack = <<>>
    THEN /\ stack' = <<"return">>
         /\ ret' = [op |-> d.regs.op, arg |-> d.regs.outlet, kind |-> d.out.kind,
                    val |-> d.out.val, log |-> log, post |-> "none",
                    name |-> d.regs.name, command |-> d.regs.command,
                    trail |-> d.regs.trail, clean |-> d.regs.clean, pre |-> d.regs.pre]
         /\ regs' = NoRegs
    ELSE /\ stack' = d.stack
         /\ regs' = d.regs
         /\ ret' = NoRet

\* self.geturl("index.htm") as the environment script outs decides it
Fetched(outs) == geturl(retries, outs, secure_login, session, Render(dev))

\* geturl logging in again after a call that got no page, the device still
\* out of reach (lines 349-369)
geturl_relogin(g, secure, session_, url) ==
    IF g.result = None
    THEN [secure_login |-> FALSE, session |-> "None", base_url |-> url]
    ELSE [secure_login |-> secure, session |-> session_, base_url |-> url]

\* secure_login, session and base_url after a geturl call that ended as g:
\* lines 447-487 read them (lines 451, 457) and assign no attribute of the
\* client, and they call nothing that does
geturl_leaves(g, secure, session_, url) ==
    [secure_login |-> secure, session |-> session_, base_url |-> url]

\* the step of an operation that made the geturl call g
Keeps(g) ==
    LET after == geturl_leaves(g, secure_login, session, base_url) IN
    /\ secure_login' = after.secure_login
    /\ session' = after.session
    /\ base_url' = after.base_url

\* the request was answered 200 at its first attempt
Reached(g) == g.log # <<>> /\ g.log[1].outcome = "ok"

\* the locals of the running operation after the request that ended as g
Noting(r, g) == [r EXCEPT !.clean = @ /\ Reached(g)]

Heard(g) == answered \/ \E i \in 1..Len(g.log) : g.log[i].outcome \in {"http_err", "ok"}

\* What the attempts of one geturl call meet.  A geturl call of the caller
\* meets any sequence of outcomes; for the requests inside the other
\* operations the model takes the sequences in which the device fails the
\* same way until it answers 200: they yield every result and every log
\* length such a request can have.
Scripts == [1..retries -> AttemptOutcomes]

Outages ==
    {[i \in 1..retries |-> IF i < up THEN how ELSE "ok"] :
        up \in 1..(retries + 1), how \in AttemptOutcomes \ {"ok"}}

Idle == constructed = "yes" /\ stack = <<>>

\* ---------------------------------------------------------------- actions
\* PowerSwitch(...), lines 239-283: the configuration, then login().  An
\* exception of login() leaves the caller without a client.
New ==
    /\ constructed = "no"
    /\ \E budget \in RetryBudgets, e \in LoginScripts :
          LET l == login(e.get1, e.get2, e.challenge, e.post, "configured") IN
          /\ retries' = budget
          /\ _is_admin' = TRUE
          /\ secure_login' = l.secure_login
          /\ session' = l.session
          /\ base_url' = l.base_url
          /\ answered' = l.answered
          /\ constructed' = IF l.exc = "none" THEN "yes" ELSE "aborted"
          /\ ret' = [NoRet EXCEPT !.op = "__init__",
                                  !.kind = IF l.exc = "none" THEN "return" ELSE "raise",
                                  !.val = IF l.exc = "none" THEN None ELSE PyExc(l.exc),
                                  !.post = l.post]
    /\ stack' = <<"return">>
    /\ UNCHANGED <<__len, dev, regs, notes>>

\* a later login() by the caller, lines 348-408
Login ==
    /\ Idle
    /\ \E e \in LoginScripts :
          LET l == login(e.get1, e.get2, e.challenge, e.post, base_url) IN
          /\ secure_login' = l.secure_login
          /\ session' = l.session
          /\ base_url' = l.base_url
          /\ answered' = (answered \/ l.answered)
          /\ ret' = [NoRet EXCEPT !.op = "login",
                                  !.kind = IF l.exc = "none" THEN "return" ELSE "raise",
                                  !.val = IF l.exc = "none" THEN None ELSE PyExc(l.exc),
                                  !.post = l.post]
    /\ stack' = <<"return">>
    /\ UNCHANGED <<constructed, retries, _is_admin, __len, dev, regs, notes>>

\* the caller has the result (or the exception) of the operation; a caller
\* whose construction raised has no client to go on with
Return ==
    /\ constructed = "yes"
    /\ stack = <<"return">>
    /\ stack' = <<>>
    /\ ret' = NoRet
    /\ UNCHANGED <<constructed, client, _is_admin, __len, dev, regs, answered, notes>>

\* how a call that ended as e (an exception, or the value v) completes
Completion(e, v) == IF e.exc = "none" THEN Returns(v) ELSE Raises(PyExc(e.exc))

\* geturl(), lines 447-487, called by the caller
FetchUrl ==
    /\ Idle
    /\ \E outs \in Scripts :
          LET g == Fetched(outs) IN
          /\ answered' = Heard(g)
          /\ Keeps(g)
          /\ Proceed(Deliver(<<>>, Completion(g, g.result),
                             [NoRegs EXCEPT !.op = "geturl"]), g.log)
    /\ UNCHANGED <<constructed, retries, _is_admin, __len, dev, notes>>

\* statuslist(), lines 558-587, called by the caller
StatusList ==
    /\ Idle
    /\ \E outs \in Outages :
          LET g == Fetched(outs)
              sl == statuslist(g, _is_admin, __len)
          IN /\ answered' = Heard(g)
             /\ Keeps(g)
             /\ _is_admin' = sl.admin
             /\ __len' = sl.len
             /\ Proceed(Deliver(<<>>, Completion(sl, PyList(sl.outlets)),
                                [NoRegs EXCEPT !.op = "statuslist"]), <<>>)
    /\ UNCHANGED <<constructed, retries, dev, notes>>

\* __len__ with a count cached, lines 289 and 291: len(switch) by the caller
Counted ==
    /\ Idle
    /\ __len # 0
    /\ Proceed(Deliver(<<>>, Returns(PyInt(__len)), [NoRegs EXCEPT !.op = "__len__"]),
               <<>>)
    /\ UNCHANGED <<constructed, client, _is_admin, __len, dev, answered, notes>>

\* __len__ with no count cached, line 290: by the caller, or by line 507
Counting ==
    /\ \/ Idle /\ __len = 0
       \/ stack # <<>> /\ Head(stack) = "__len__"
    /\ \E outs \in Outages :
          LET g == Fetched(outs)
              sl == statuslist(g, _is_admin, __len)
              n == IF sl.exc = "none" THEN Len(sl.outlets) ELSE sl.len
              r == IF stack = <<>> THEN [NoRegs EXCEPT !.op = "__len__"]
                   ELSE Noting(regs, g)
              below == IF stack = <<>> THEN <<>> ELSE Tail(stack)
          IN /\ answered' = Heard(g)
             /\ Keeps(g)
             /\ _is_admin' = sl.admin
             /\ __len' = n
             /\ Proceed(Deliver(below, Completion(sl, PyInt(n)), r), <<>>)
    /\ UNCHANGED <<constructed, retries, dev, notes>>

\* __len__, lines 285-291: called by the caller (len(switch)), or by line 507
\* of determine_outlet when no count is cached
Length ==
    \/ Counted
    \/ Counting

\* determine_outlet, lines 489-511, called by the caller or by line 604 of
\* status(outlet)
DetermineOutlet ==
    /\ Idle
    /\ \E outs \in Outages :
          LET g == Fetched(outs)
              sl == statuslist(g, _is_admin, __len)
          IN /\ answered' = Heard(g)
             /\ Keeps(g)
             /\ _is_admin' = sl.admin
             /\ __len' = sl.len
             /\ \E op \in {"determine_outlet", "status"}, outlet \in Identifiers :
                   LET c == determine_outlet(outlet, sl.outlets)
                       r == [NoRegs EXCEPT
                                !.op = op, !.outlet = outlet,
                                !.outlet_int = IF c.kind = "len" THEN c.val.v ELSE 0]
                       below == IF op = "status" THEN <<"status:604">> ELSE <<>>
                   IN IF sl.exc # "none"
                      THEN Proceed(Deliver(below, Completion(sl, None), r), <<>>)
                      ELSE IF c.kind # "len"
                      THEN Proceed(Deliver(below, c, r), <<>>)
                      ELSE IF sl.len # 0
                      THEN Proceed(Deliver(<<"determine_outlet:507">> \o below,
                                           Returns(PyInt(sl.len)), r), <<>>)
                      ELSE /\ stack' = <<"__len__", "determine_outlet:507">> \o below
                           /\ regs' = r
                           /\ ret' = NoRet
    /\ UNCHANGED <<constructed, retries, dev, notes>>

\* status from line 605 on, lines 599-610
Status ==
    /\ stack # <<>> /\ Head(stack) = "status"
    /\ \E outs \in Outages :
          LET g == Fetched(outs)
              sl == statuslist(g, _is_admin, __len)
          IN /\ answered' = Heard(g)
             /\ Keeps(g)
             /\ _is_admin' = sl.admin
             /\ __len' = sl.len
             /\ Proceed(Deliver(Tail(stack),
                                Completion(sl, status_result(regs.resolved, sl.outlets)),
                                Noting(regs, g)), <<>>)
    /\ UNCHANGED <<constructed, retries, dev, notes>>

\* the device changes on its own, between two requests: it lists more or
\* fewer outlets, or serves another page shape
DeviceChange ==
    /\ stack # <<"return">>
    /\ \E c \in 0..MaxOutlets, l \in Layouts :
          /\ dev' = [dev EXCEPT !.count = c, !.layout = l]
          /\ dev' # dev
    /\ UNCHANGED <<constructed, client, _is_admin, __len, stack, regs, ret,
                   answered, notes>>

\* A caller reads the status list of a reachable device and resolves one of
\* its records twice: by the record's name and by the text of its number.
ResolveRecord ==
    /\ Idle
    /\ LET g == geturl(retries, [i \in 1..retries |-> "ok"], secure_login, session,
                       Render(dev))
           sl == statuslist(g, _is_admin, __len)
       IN \E i \in 1..Len(sl.outlets) :
             probe' = [outlets |-> sl.outlets, length |-> sl.len, plug |-> i,
                       by_name |-> resolve(sl.outlets[i].name, sl.outlets, sl.len),
                       by_number |-> resolve(PyStr(str(sl.outlets[i].number)),
                                             sl.outlets, sl.len)]
    /\ UNCHANGED <<constructed, client, _is_admin, __len, dev, stack, regs, ret, answered,
                   parsed, last, pool, cli>>

Next ==
    \/ New
    \/ Login
    \/ Return
    \/ FetchUrl
    \/ StatusList
    \/ Length
    \/ DetermineOutlet
    \/ Status
    \/ DeviceChange

Spec == Init /\ [][Next]_vars

\* The resolver alone: a client with any cached count before a reachable
\* device with any labels, resolving the records of the list.
InitResolve ==
    /\ constructed = "yes"
    /\ retries = MaxRetries
    /\ secure_login = FALSE
    /\ session = "None"
    /\ base_url = "configured"
    /\ _is_admin = TRUE
    /\ __len \in 0..MaxOutlets
    /\ dev \in Devices
    /\ stack = <<>>
    /\ regs = NoRegs
    /\ ret = NoRet
    /\ answered = TRUE
    /\ probe = NoProbe
    /\ parsed = NoParsed
    /\ last = NoLast
    /\ pool = NoPool
    /\ cli = NoCli

NextResolve == ResolveRecord

SpecResolve == InitResolve /\ [][NextResolve]_vars

\* ------------------------------------------------- the commands of a caller
\* the operations a caller starts on one outlet, and the operations
\* command_on_outlets is asked to run
Operations == {"on", "off", "cycle", "status", "get_outlet_name"}

\* the outlets a caller names, and the names it gives
Targets == {PyInt(0), PyInt(1), PyInt(MaxOutlets), PyStr(<<"A">>), PyStr(str(1))}

NewNames == {<<"X">>, <<"A">>, <<>>}

\* the calls operation op has in progress when it starts: each begins by
\* resolving the outlet (lines 515, 525, 534, 542, 604; cycle by its off())
Frames(op) ==
    CASE op = "on" -> <<"determine_outlet", "on:542">>
      [] op = "off" -> <<"determine_outlet", "off:534">>
      [] op = "cycle" -> <<"determine_outlet", "off:534", "cycle:552">>
      [] op = "status" -> <<"determine_outlet", "status:604">>
      [] op = "get_outlet_name" -> <<"determine_outlet", "get_outlet_name:515">>
      [] op = "set_outlet_name" -> <<"determine_outlet", "set_outlet_name:525">>

\* the call of op on outlet comes right after the same on or off of the same
\* outlet, or reads the name of the outlet just renamed
Follows(op, outlet) ==
    /\ last.arg = outlet
    /\ \/ last.op \in {"on", "off"} /\ op = last.op
       \/ last.op = "set_outlet_name" /\ op = "get_outlet_name"

\* a caller calls one of the operations, or command_on_outlets with a list
\* of one outlet (line 620)
Call ==
    /\ Idle
    /\ \E op \in Operations \cup {"set_outlet_name", "command_on_outlets"},
          command \in Operations \cup {"none"}, outlet \in Targets, name \in NewNames :
          /\ (op = "command_on_outlets") = (command # "none")
          /\ op # "set_outlet_name" => name = <<>>
          /\ stack' = IF op = "command_on_outlets"
                      THEN Frames(command) \o <<"command_on_outlets:620">>
                      ELSE Frames(op)
          /\ regs' = [NoRegs EXCEPT !.op = op, !.outlet = outlet, !.name = name,
                                    !.command = command, !.pre = dev.state]
          /\ last' = IF Follows(op, outlet) THEN last ELSE NoLast
    /\ ret' = NoRet
    /\ UNCHANGED <<constructed, client, _is_admin, __len, dev, answered,
                   probe, parsed, pool, cli>>

\* determine_outlet, lines 489-511, called by an operation
Resolve ==
    /\ stack # <<>> /\ Head(stack) = "determine_outlet"
    /\ \E outs \in Outages :
          LET g == Fetched(outs)
              sl == statuslist(g, _is_admin, __len)
              c == determine_outlet(regs.outlet, sl.outlets)
              r == Noting([regs EXCEPT !.outlet_int = IF c.kind = "len" THEN c.val.v ELSE 0],
                          g)
              below == Tail(stack)
          IN /\ answered' = Heard(g)
             /\ Keeps(g)
             /\ _is_admin' = sl.admin
             /\ __len' = sl.len
             /\ IF sl.exc # "none"
                THEN Proceed(Deliver(below, Completion(sl, None), r), <<>>)
                ELSE IF c.kind # "len"
                THEN Proceed(Deliver(below, c, r), <<>>)
                ELSE IF sl.len # 0
                THEN Proceed(Deliver(<<"determine_outlet:507">> \o below,
                                     Returns(PyInt(sl.len)), r), <<>>)
                ELSE /\ stack' = <<"__len__", "determine_outlet:507">> \o below
                     /\ regs' = r
                     /\ ret' = NoRet
    /\ UNCHANGED <<constructed, retries, dev, notes>>

\* The geturl of lines 526, 534 and 542: the command goes to the device.
\* The device acts on a request it answers with 200, and on one whose answer
\* the client does not wait for (a read timeout) it may have acted or not.
\* The result of geturl is dropped; the operation goes on to read back.
Command ==
    /\ stack # <<>>
    /\ Head(stack) \in {"off:geturl", "on:geturl", "set_outlet_name:geturl"}
    /\ \E outs \in Outages, lost \in BOOLEAN :
          LET f == Head(stack)
              g == Fetched(outs)
              acted == \E i \in 1..Len(g.log) :
                          \/ g.log[i].outcome = "ok"
                          \/ g.log[i].outcome = "ReadTimeout" /\ ~lost
              sent == CASE f = "off:geturl" -> Event("sent", "OFF", PyInt(regs.resolved))
                        [] f = "on:geturl" -> Event("sent", "ON", PyInt(regs.resolved))
                        [] OTHER -> Event("sent", "NAME", PyStr(format_s(regs.outlet)))
              served == CASE f = "off:geturl" -> Switched(dev, regs.resolved, OFF)
                          [] f = "on:geturl" -> Switched(dev, regs.resolved, ON)
                          [] OTHER -> Renamed(dev, format_s(regs.outlet), quote(regs.name))
          IN /\ answered' = Heard(g)
             /\ Keeps(g)
             /\ dev' = IF acted THEN served ELSE dev
             /\ regs' = Noting([regs EXCEPT !.trail = Append(@, sent)], g)
             /\ stack' = CASE f = "off:geturl" ->
                                <<"determine_outlet", "status:604", "off:535">> \o Tail(stack)
                            [] f = "on:geturl" ->
                                <<"determine_outlet", "status:604", "on:543">> \o Tail(stack)
                            [] OTHER ->
                                <<"determine_outlet", "get_outlet_name:515",
                                  "set_outlet_name:527">> \o Tail(stack)
    /\ ret' = NoRet
    /\ UNCHANGED <<constructed, retries, _is_admin, __len, notes>>

\* get_outlet_name from line 516 on, lines 513-521
GetOutletName ==
    /\ stack # <<>> /\ Head(stack) = "get_outlet_name"
    /\ \E outs \in Outages :
          LET g == Fetched(outs)
              sl == statuslist(g, _is_admin, __len)
          IN /\ answered' = Heard(g)
             /\ Keeps(g)
             /\ _is_admin' = sl.admin
             /\ __len' = sl.len
             /\ Proceed(Deliver(Tail(stack),
                                Completion(sl, name_result(regs.resolved, sl.outlets)),
                                Noting(regs, g)), <<>>)
    /\ UNCHANGED <<constructed, retries, dev, notes>>

\* somebody presses the button of the first outlet of the device
Interfere ==
    /\ constructed = "yes"
    /\ stack # <<"return">>
    /\ dev.count >= 1
    /\ dev' = [dev EXCEPT !.state[1] = IF @ = ON THEN OFF ELSE ON]
    /\ regs' = IF stack = <<>> THEN regs ELSE [regs EXCEPT !.clean = FALSE]
    /\ last' = NoLast
    /\ UNCHANGED <<constructed, client, _is_admin, __len, stack, ret, answered,
                   probe, parsed, pool, cli>>

\* the caller has the result of the operation and keeps in mind the last on,
\* off or set_outlet_name that returned, if every request of it was answered
\* and nobody touched the device meanwhile
Reply ==
    /\ constructed = "yes"
    /\ stack = <<"return">>
    /\ stack' = <<>>
    /\ ret' = NoRet
    /\ last' = IF ret.op \in {"on", "off", "set_outlet_name"} /\ ret.kind = "return"
                  /\ ret.clean
               THEN [op |-> ret.op, arg |-> ret.arg, name |-> ret.name, val |-> ret.val]
               ELSE NoLast
    /\ UNCHANGED <<constructed, client, _is_admin, __len, dev, regs, answered,
                   probe, parsed, pool, cli>>

\* A client of one attempt before a device it has reached, which lists all
\* its outlets under distinct names.
InitCommand ==
    /\ constructed = "yes"
    /\ retries = 1
    /\ secure_login = FALSE
    /\ session = "None"
    /\ base_url = "configured"
    /\ _is_admin = TRUE
    /\ __len = 0
    /\ dev \in {d \in PlainDevices : d.count = MaxOutlets /\ d.layout = "admin"
                                      /\ d.names[1] = PyStr(<<"A">>)}
    /\ stack = <<>>
    /\ regs = NoRegs
    /\ ret = NoRet
    /\ answered = TRUE
    /\ probe = NoProbe
    /\ parsed = NoParsed
    /\ last = NoLast
    /\ pool = NoPool
    /\ cli = NoCli

NextCommand ==
    \/ Call
    \/ Resolve
    \/ Length
    \/ Command
    \/ Status
    \/ GetOutletName
    \/ Interfere
    \/ Reply

SpecCommand == InitCommand /\ [][NextCommand]_vars

\* ------------------------------------------- command_on_outlets, many outlets
\* Lines 624-639.  multiprocessing.Pool starts one worker process per outlet;
\* each gets a pickled copy of the client (its own __len and _is_admin) and
\* runs the operation on its outlet; they share only the device.  The
\* process whose turn it is has its stack, locals and copy of the client
\* loaded in the variables of the model (pool.who names it, 0 the parent);
\* the others wait in pool.ctx.  pool.results[i] is how worker i ended and
\* pool.order the order in which the workers ended.
Pending == [arg |-> None, kind |-> "none", val |-> None]

Parked == [stack |-> <<>>, regs |-> NoRegs, len |-> 0, admin |-> FALSE]

\* the lists of outlets a caller hands to command_on_outlets: two outlets
\* for any operation, all outlets for on and status, and for status also an
\* outlet with one that the device does not have
BatchLists(command) ==
    {<<PyInt(1), PyInt(2)>>, <<PyStr(<<"A">>), PyInt(MaxOutlets)>>}
    \cup (IF command \in {"on", "status"} THEN {[i \in 1..MaxOutlets |-> PyInt(i)]} ELSE {})
    \cup (IF command = "status" THEN {<<PyInt(1), PyInt(0)>>} ELSE {})

\* list(pool.imap_unordered(...)): the results as the workers end
imap_unordered(results, order) == [k \in 1..Len(order) |-> results[order[k]].val]

\* list(pool.imap(...)), lines 625-631: the results in the order of the tasks
imap(results, order) == [i \in 1..Len(results) |-> results[i].val]

\* the result of the first outlet taken for the result of all
aggregate_first(result) ==
    IF result[1].t = "bool" THEN result[1] ELSE PyList(result)

\* lines 634-639
aggregate(result) ==
    IF result[1].t = "bool"
    THEN IF \E i \in 1..Len(result) : truthy(result[i]) THEN PyBool(TRUE) ELSE result[1]
    ELSE PyList(result)

\* a caller calls command_on_outlets with two or more outlets: the pool is
\* created and the tasks are handed out; the parent waits at line 625
Batch ==
    /\ Idle
    /\ pool.command = "none"
    /\ \E command \in Operations : \E outlets \in BatchLists(command) :
          /\ pool' = [command |-> command, outlets |-> outlets, who |-> 0,
                      ctx |-> [i \in 1..Len(outlets) |->
                                 [stack |-> Frames(command),
                                  regs |-> [NoRegs EXCEPT !.op = command,
                                                          !.outlet = outlets[i]],
                                  len |-> __len, admin |-> _is_admin]],
                      results |-> [i \in 1..Len(outlets) |-> Pending],
                      order |-> <<>>,
                      parent |-> [len |-> __len, admin |-> _is_admin]]
          /\ regs' = [NoRegs EXCEPT !.op = "command_on_outlets", !.command = command]
    /\ stack' = <<"pool">>
    /\ ret' = NoRet
    /\ UNCHANGED <<constructed, client, _is_admin, __len, dev, answered,
                   probe, parsed, last, cli>>

\* the scheduler gives the turn to worker j, between two requests of the
\* worker that had it
Switch ==
    /\ pool.command # "none"
    /\ stack # <<"return">>
    /\ \E j \in 1..Len(pool.outlets) :
          /\ j # pool.who
          /\ pool.results[j] = Pending
          /\ stack' = pool.ctx[j].stack
          /\ regs' = pool.ctx[j].regs
          /\ __len' = pool.ctx[j].len
          /\ _is_admin' = pool.ctx[j].admin
          /\ pool' = [pool EXCEPT
                         !.who = j,
                         !.ctx = [i \in 1..Len(pool.outlets) |->
                                    IF i = j THEN Parked
                                    ELSE IF i = pool.who
                                    THEN [stack |-> stack, regs |-> regs,
                                          len |-> __len, admin |-> _is_admin]
                                    ELSE pool.ctx[i]]]
    /\ UNCHANGED <<constructed, client, dev, ret, answered, probe, parsed, last, cli>>

\* the worker whose turn it is has finished its task: its result, or its
\* exception, goes back to the parent
WorkerDone ==
    /\ pool.who # 0
    /\ stack = <<"return">>
    /\ pool' = [pool EXCEPT !.who = 0,
                            !.results[pool.who] = [arg |-> ret.arg, kind |-> ret.kind,
                                                   val |-> ret.val],
                            !.order = Append(@, pool.who)]
    /\ stack' = <<"pool">>
    /\ regs' = [NoRegs EXCEPT !.op = "command_on_outlets", !.command = pool.command]
    /\ ret' = NoRet
    /\ __len' = pool.parent.len
    /\ _is_admin' = pool.parent.admin
    /\ UNCHANGED <<constructed, client, dev, answered, probe, parsed, last, cli>>

\* the tasks whose results list(pool.imap(...)) can take: all up to the
\* first that raised, which it raises again
Raised == {i \in 1..Len(pool.results) :
             /\ pool.results[i].kind = "raise"
             /\ \A j \in 1..i : pool.results[j] # Pending}

\* the parent goes on from line 625: with an exception of a worker (the pool
\* is torn down, whatever the other workers were doing), or with all results
Collect ==
    /\ pool.command # "none"
    /\ pool.who = 0
    /\ stack = <<"pool">>
    /\ \/ Raised # {}
       \/ \A i \in 1..Len(pool.results) : pool.results[i] # Pending
    /\ ret' = [NoRet EXCEPT
                  !.op = "command_on_outlets", !.command = pool.command,
                  !.kind = IF Raised # {} THEN "raise" ELSE "return",
                  !.val = IF Raised # {}
                          THEN pool.results[CHOOSE i \in Raised :
                                               \A j \in Raised : i <= j].val
                          ELSE aggregate(imap(pool.results, pool.order))]
    /\ stack' = <<"return">>
    /\ regs' = NoRegs
    /\ UNCHANGED <<constructed, client, _is_admin, __len, dev, answered, notes>>

\* the caller has the result of command_on_outlets, or of len()
BatchReply ==
    /\ pool.who = 0
    /\ stack = <<"return">>
    /\ stack' = <<>>
    /\ ret' = NoRet
    /\ pool' = NoPool
    /\ UNCHANGED <<constructed, client, _is_admin, __len, dev, regs, answered,
                   probe, parsed, last, cli>>

NextBatch ==
    \/ Batch
    \/ Switch
    \/ Resolve
    \/ Length
    \/ Command
    \/ Status
    \/ GetOutletName
    \/ WorkerDone
    \/ Collect
    \/ BatchReply

SpecBatch == InitCommand /\ [][NextBatch]_vars

\* ------------------------------------------------- the session of a client
\* A caller builds a client before a device of one outlet, named A, and then
\* uses it in every way: login() again, geturl(), statuslist(), len(), the
\* operations on one outlet, set_outlet_name, command_on_outlets on one
\* outlet and on several.
InitSession ==
    /\ Init
    /\ dev.count = 1
    /\ dev.layout = "admin"
    /\ dev.names[1] = PyStr(<<"A">>)

NextSession ==
    \/ New
    \/ Login
    \/ FetchUrl
    \/ StatusList
    \/ Call
    \/ Resolve
    \/ Length
    \/ Command
    \/ Status
    \/ GetOutletName
    \/ Batch
    \/ Switch
    \/ WorkerDone
    \/ Collect
    \/ BatchReply

SpecSession == InitSession /\ [][NextSession]_vars

\* ------------------------------------------------- the command line, main()
\* scripts/dlipower.py.  main() builds the client (lines 135-142), takes the
\* operation and its arguments from the command line and runs it; the
\* process ends with the status sys.exit is given, with 0 when main()
\* returns and with 1 when an exception leaves it.
CliOperations == {"on", "off", "cycle", "status", "get_outlet_name", "set_outlet_name"}

\* the outlet words of a command line: no comma and no hyphen in them
CliOutlets == {str(0), str(1), <<"A">>, <<"Z">>}

\* str.zfill
RECURSIVE zfill(_, _)
zfill(s, width) == IF Len(s) >= width THEN s ELSE zfill(<<"0">> \o s, width)

\* _block_to_list, lines 37-75, of a block that is one word: at the comma
\* put after it (line 49) the word is val1 and goes into the result filled
\* to its own length (lines 65-70)
_block_to_list(block) == <<zfill(block, Len(block))>>

\* ",".join(result) of lines 150 and 168-172 raises TypeError for an item
\* that is not a string
join_raises(result) ==
    result.t # "list" \/ \E i \in 1..Len(result.v) : result.v[i].t # "str"

\* sys.exit(arg): None is status 0, a bool or an int is the status itself
sys_exit(arg) ==
    CASE arg = None -> PyInt(0)
      [] arg.t = "bool" -> PyInt(IF arg.v THEN 1 ELSE 0)
      [] arg.t = "int" -> PyInt(arg.v % 256)
      [] OTHER -> PyInt(1)

\* The exit status of main(), lines 78-86 and 148-183, when the operation
\* ended as r.  A DLIPowerException of command_on_outlets is caught and
\* sys.exit(1) called (line 86); any other exception, and any exception of
\* set_outlet_name (line 179 is not in a try), ends the interpreter with
\* status 1.  on, cycle and set_outlet_name hand their result to sys.exit
\* (lines 155, 161, 179); off only prints (lines 157-159), status and
\* get_outlet_name print the joined list, and main() returns.
exit_status(operation, r) ==
    IF r.kind = "raise" THEN PyInt(1)
    ELSE CASE operation \in {"on", "cycle", "set_outlet_name"} -> sys_exit(r.val)
           [] operation = "off" -> PyInt(0)
           [] OTHER -> PyInt(IF join_raises(r.val) THEN 1 ELSE 0)

\* lines 145-179: the client is built; the operation is looked up and
\* started on the outlet: through __command_on_outlets and line 620 of
\* command_on_outlets, or directly for set_outlet_name (line 179)
Dispatch ==
    /\ constructed = "yes"
    /\ stack = <<"return">>
    /\ ret.op = "__init__"
    /\ cli = NoCli
    /\ \E operation \in CliOperations, outlet \in CliOutlets, name \in {<<>>, <<"X">>} :
          LET outlet_range == _block_to_list(outlet) IN
          /\ (operation = "set_outlet_name") = (name # <<>>)
          /\ Len(outlet_range) = 1
          /\ cli' = [operation |-> operation, args |-> <<outlet, name>>, exit |-> None]
          /\ stack' = IF operation = "set_outlet_name"
                      THEN Frames(operation)
                      ELSE Frames(operation) \o <<"command_on_outlets:620">>
          /\ regs' = IF operation = "set_outlet_name"
                     THEN [NoRegs EXCEPT !.op = operation, !.outlet = PyStr(outlet),
                                         !.name = name, !.pre = dev.state]
                     ELSE [NoRegs EXCEPT !.op = "command_on_outlets",
                                         !.outlet = PyStr(outlet_range[1]),
                                         !.command = operation, !.pre = dev.state]
    /\ ret' = NoRet
    /\ UNCHANGED <<constructed, client, _is_admin, __len, dev, answered,
                   probe, parsed, last, pool>>

\* the process ends: the construction of the client raised, or the
\* operation is over
Exit ==
    /\ stack = <<"return">>
    /\ cli.exit = None
    /\ \/ constructed = "aborted"
       \/ cli.operation # "none"
    /\ cli' = [cli EXCEPT !.exit = exit_status(cli.operation, ret)]
    /\ stack' = <<"exit">>
    /\ UNCHANGED <<constructed, client, _is_admin, __len, dev, regs, ret, answered,
                   probe, parsed, last, pool>>

NextCli ==
    \/ New
    \/ Dispatch
    \/ Resolve
    \/ Counting
    \/ Command
    \/ Status
    \/ GetOutletName
    \/ Exit

SpecCli == Init /\ [][NextCli]_vars

\* The parser alone: statuslist() is given the page of a device as it is, or
\* with one outlet row damaged (its state cell without a font element, its
\* number cell not a number or holding markup, or a cell missing), or an
\* empty body, or nothing at all (the device was not reached).
Damages == {"none", "nofont", "notnumber", "markup", "short"}

\* soup.findAll("td", text="1"): some td cell holds exactly the text 1
Anchor(rows) ==
    \E i \in 1..Len(rows) :
        \/ rows[i].ncols >= 1 /\ rows[i].number = PyStr(<<"1">>)
        \/ rows[i].ncols >= 2 /\ rows[i].name = PyStr(<<"1">>)

\* row j of the page (the header row is row 1) damaged
Damage(page, how, j) ==
    LET rows == [page.rows EXCEPT ![j] =
                    CASE how = "nofont" -> [@ EXCEPT !.font = FALSE]
                      [] how = "notnumber" -> [@ EXCEPT !.number = PyStr(<<"x">>)]
                      [] how = "markup" -> [@ EXCEPT !.number = None]
                      [] how = "short" -> [@ EXCEPT !.ncols = @ - 1]
                      [] OTHER -> @]
    IN [page EXCEPT !.rows = rows, !.td1 = Anchor(rows)]

EmptyPage == [empty |-> TRUE, td1 |-> FALSE, thHash |-> FALSE, rows |-> <<>>]

ParsePage ==
    /\ Idle
    /\ \E kind \in {"page", "empty", "unreachable"}, how \in Damages, j \in 0..dev.count :
          /\ (how = "none") = (j = 0)
          /\ kind # "page" => how = "none"
          /\ LET page == IF how = "none" THEN Render(dev)
                         ELSE Damage(Render(dev), how, j + 1)
                 g == [exc |-> "none", log |-> <<>>,
                       result |-> CASE kind = "page" -> PyBytes(page)
                                    [] kind = "empty" -> PyBytes(EmptyPage)
                                    [] OTHER -> None]
                 sl == statuslist(g, _is_admin, __len)
             IN /\ _is_admin' = sl.admin
                /\ __len' = sl.len
                /\ parsed' = [kind |-> kind, damage |-> how, row |-> j, admin |-> _is_admin,
                              exc |-> sl.exc, outlets |-> sl.outlets]
    /\ UNCHANGED <<constructed, client, dev, stack, regs, ret, answered, probe, last, pool, cli>>

InitParse ==
    /\ constructed = "yes"
    /\ retries = MaxRetries
    /\ secure_login = FALSE
    /\ session = "None"
    /\ base_url = "configured"
    /\ _is_admin = TRUE
    /\ __len = 0
    /\ dev \in Devices
    /\ stack = <<>>
    /\ regs = NoRegs
    /\ ret = NoRet
    /\ answered = TRUE
    /\ probe = NoProbe
    /\ parsed = NoParsed
    /\ last = NoLast
    /\ pool = NoPool
    /\ cli = NoCli

NextParse == ParsePage

SpecParse == InitParse /\ [][NextParse]_vars

\* ----------------------------------------------------------------- properties
\* the status list a reachable device d yields
Listing(d) ==
    statuslist([exc |-> "none", result |-> PyBytes(Render(d)), log |-> <<>>], TRUE, 0).outlets

LastAttempt(log) == log[Len(log)].outcome

\* C1: login() never raises, whatever the GET, the challenge page and the
\* POST meet; so PowerSwitch(...) is never aborted by it.
C1_LoginNeverRaises ==
    /\ ret.op \in {"login", "__init__"} => ret.kind = "return"
    /\ constructed # "aborted"

\* C2: when login() has returned, secure_login holds exactly if its POST got
\* a 200 answer with a Set-Cookie header; and every attempt of a later geturl
\* goes through the cookie session exactly if secure_login holds (and there
\* is a session), else it is a fresh request with basic auth.
C2_SecureIffCookie ==
    /\ (ret.op \in {"login", "__init__"} /\ ret.kind = "return")
          => (secure_login <=> ret.post = "ok_cookie")
    /\ ret.op = "geturl" =>
          \A i \in 1..Len(ret.log) :
             /\ ret.log[i].transport \in {"session", "basic"}
             /\ (ret.log[i].transport = "session")
                   <=> (secure_login /\ session # "None")

C2_Witness ==
    /\ ret.op = "geturl"
    /\ ret.log # <<>>
    /\ ret.log[1].transport = "session"

\* C3: geturl never raises, whatever failures and non-200 answers its
\* attempts meet, and it returns None when no attempt got a 200.
C3_GeturlNeverRaises ==
    ret.op = "geturl" =>
        /\ ret.kind = "return"
        /\ (\A i \in 1..Len(ret.log) : ret.log[i].outcome # "ok") => ret.val = None

C3_Witness ==
    /\ ret.op = "geturl"
    /\ Len(ret.log) >= 2
    /\ ret.log[1].outcome = "ReadTimeout"
    /\ ret.log[2].outcome = "ConnectionError"
    /\ ret.val = None

\* C4: one geturl call makes at most `retries` attempts, none after the
\* first 200, whose body it returns; and after an attempt that failed or got
\* another status it makes the next one while fewer than `retries` were made.
C4_RetryLoop ==
    ret.op = "geturl" =>
        /\ Len(ret.log) <= retries
        /\ \A i \in 1..(Len(ret.log) - 1) : ret.log[i].outcome # "ok"
        /\ (ret.log # <<>> /\ LastAttempt(ret.log) = "ok")
              => ret = [NoRet EXCEPT !.op = "geturl", !.kind = "return", !.log = ret.log,
                                     !.val = PyBytes(Render(dev))]
        /\ Len(ret.log) < retries => (ret.log # <<>> /\ LastAttempt(ret.log) = "ok")

C4_Witness ==
    /\ ret.op = "geturl"
    /\ Len(ret.log) = 2
    /\ ret.log[1].outcome = "http_err"
    /\ ret.log[2].outcome = "ok"
    /\ ret.val = PyBytes(Render(dev))

\* C5: when no request of the client has ever got through, status() of an
\* outlet number (1, the default, or above) returns "Unknown" and
\* statuslist() returns an empty list, neither raising.
C5_UnreachableStatus ==
    ~answered =>
        /\ (ret.op = "status" /\ ret.arg.t = "int" /\ ret.arg.v >= 1)
              => (ret.kind = "return" /\ ret.val = PyStr(Unknown))
        /\ ret.op = "statuslist" => (ret.kind = "return" /\ ret.val = PyList(<<>>))

\* C6: every number determine_outlet returns lies in 1..__len, the cached
\* count, also when a later page lists more or fewer outlets than the first.
C6_ResolvedInRange ==
    (ret.op = "determine_outlet" /\ ret.kind = "return")
        => (ret.val.t = "int" /\ 1 <= ret.val.v /\ ret.val.v <= __len)

\* C7: determine_outlet(n) returns n for an integer n in 1..__len, raises
\* "out of range" for every other integer, and raises "unknown" for a
\* string that is no number and no outlet's name.
C7_ResolveNumber ==
    ret.op = "determine_outlet" =>
        /\ (ret.arg.t = "int" /\ 1 <= ret.arg.v /\ ret.arg.v <= __len)
              => (ret.kind = "return" /\ ret.val = ret.arg)
        /\ (ret.arg.t = "int" /\ ~(1 <= ret.arg.v /\ ret.arg.v <= __len))
              => (ret.kind = "raise" /\ ret.val = DLIPowerException("out of range"))
        /\ ( /\ ret.arg.t = "str"
             /\ int(ret.arg).exc = "ValueError"
             /\ \A i \in 1..Len(Listing(dev)) :
                   ~( /\ truthy(Listing(dev)[i].name)
                      /\ strip(Listing(dev)[i].name.v) = strip(ret.arg.v)) )
              => (ret.kind = "raise" /\ ret.val = DLIPowerException("unknown"))

Probed == probe.outlets[probe.plug]

ProbedIsPlain ==
    /\ truthy(Probed.name)
    /\ \A j \in 1..Len(probe.outlets) :
          (j # probe.plug /\ truthy(probe.outlets[j].name))
             => /\ strip(probe.outlets[j].name.v) # strip(Probed.name.v)
                /\ strip(probe.outlets[j].name.v) # str(Probed.number)
    /\ Probed.number <= probe.length

C9_CountCachedOnce ==
    /\ __len = 0
    /\ [][ /\ __len # 0 => __len' = __len
           /\ (__len = 0 /\ __len' # 0) => __len' = Len(Listing(dev))
           /\ (__len = 0 /\ ret'.op = "statuslist" /\ ret'.kind = "return" /\ ret = NoRet)
                 => __len' = Len(ret'.val.v) ]_vars

C9_Witness ==
    /\ ret.op = "statuslist"
    /\ ret.kind = "return"
    /\ __len # 0
    /\ Len(ret.val.v) \notin {0, __len}

\* C10: _is_admin is true when the client is constructed, and once false no
\* operation makes it true again.
C10_AdminOneWay ==
    [][ /\ (constructed = "no" /\ constructed' # "no") => _is_admin'
        /\ (constructed = "yes" /\ ~_is_admin) => ~_is_admin' ]_vars

C10_Witness ==
    /\ constructed = "yes"
    /\ ~_is_admin
    /\ ret.op = "statuslist"
    /\ ret.kind = "return"
    /\ dev.layout = "admin"
    /\ ret.val.v # <<>>

\* C11: the page of the restricted-user layout yields the records, in the
\* same order, that the admin layout of the same device yields, and leaves
\* _is_admin false.
C11_UserLayout ==
    (parsed.kind = "page" /\ parsed.damage = "none" /\ dev.layout = "user")
        => /\ parsed.exc = "none"
           /\ parsed.outlets = Listing([dev EXCEPT !.layout = "admin"])
           /\ ~_is_admin

\* C11 as amended: the same, for a user-layout page none of whose td cells
\* holds exactly the text 1 (the admin anchor); with such a cell, an outlet
\* named 1, the records are the same but _is_admin is left as it was.
C11_UserLayoutNoAnchor ==
    (parsed.kind = "page" /\ parsed.damage = "none" /\ dev.layout = "user")
        => /\ parsed.exc = "none"
           /\ parsed.outlets = Listing([dev EXCEPT !.layout = "admin"])
           /\ IF Render(dev).td1 THEN _is_admin = parsed.admin ELSE ~_is_admin

C11_Witness ==
    /\ parsed.kind = "page" /\ parsed.damage = "none"
    /\ dev.layout = "user" /\ dev.count = MaxOutlets
    /\ ~Render(dev).td1
    /\ parsed.admin /\ ~_is_admin
    /\ Len(parsed.outlets) = MaxOutlets
    /\ parsed.outlets[MaxOutlets].number = MaxOutlets

\* the records of the rows of a page other than row j, in page order
Others(d, j) ==
    LET all == Listing([d EXCEPT !.layout = "admin"])
    IN [i \in 1..(Len(all) - 1) |-> all[IF i < j THEN i ELSE i + 1]]

\* C12: statuslist() never raises: it returns an empty list for a device not
\* reached, an empty page, a page with neither anchor and a page with a
\* malformed outlet row; a row without its five cells is skipped and the
\* other records keep page order.
C12_StatuslistNeverRaises ==
    parsed.kind # "none" =>
        /\ parsed.exc = "none"
        /\ parsed.kind \in {"empty", "unreachable"} => parsed.outlets = <<>>
        /\ (parsed.kind = "page" /\ dev.layout = "none") => parsed.outlets = <<>>
        /\ parsed.damage \in {"nofont", "notnumber", "markup"} => parsed.outlets = <<>>
        /\ (parsed.damage = "short" /\ (Render(dev).td1 \/ Render(dev).thHash)
              /\ Damage(Render(dev), "short", parsed.row + 1).td1 = Render(dev).td1)
              => parsed.outlets = Others(dev, parsed.row)

\* the places of the events of kind e in a trail, and the first and last
Places(t, e) == {i \in 1..Len(t) : t[i].e = e}
First(S) == CHOOSE i \in S : \A j \in S : i <= j
Latest(S) == CHOOSE i \in S : \A j \in S : j <= i

\* the state an on or an off is to bring about
Intended(op) == IF op = "on" THEN ON ELSE OFF

\* C13: an on() or off() whose command was sent returns, and returns true
\* exactly when the status its confirmation read gave is not the intended
\* one, also when the command or the confirmation got no answer.
C13_OnOffConfirmation ==
    (ret.op \in {"on", "off"} /\ Places(ret.trail, "sent") # {})
        => /\ ret.kind = "return"
           /\ Places(ret.trail, "read") # {}
           /\ ret.val = PyBool(ret.trail[Latest(Places(ret.trail, "read"))].v
                                  # PyStr(Intended(ret.op)))

\* the outlet the (first) command of the operation went to
Commanded == ret.trail[First(Places(ret.trail, "sent"))].v.v

\* C14: with every request answered and nobody else touching the device,
\* off(k) of an outlet that is OFF and on(k) of one that is ON return false
\* and leave it so; and the same on or off made again right after returns
\* what the first did and leaves the device as the first left it.
C14_Idempotent ==
    (ret.op \in {"on", "off"} /\ ret.clean /\ Places(ret.trail, "sent") # {})
        => /\ ret.pre[Commanded] = Intended(ret.op)
                 => /\ ret.kind = "return"
                    /\ ret.val = PyBool(FALSE)
                    /\ dev.state[Commanded] = Intended(ret.op)
           /\ last.op = ret.op
                 => /\ ret.kind = "return"
                    /\ ret.val = last.val
                    /\ dev.state = ret.pre

C14_Witness ==
    /\ ret.op = "off" /\ ret.arg = PyStr(<<"A">>)
    /\ ret.clean
    /\ last.op = "off"
    /\ Commanded = 1
    /\ ret.pre[1] = OFF
    /\ ret.val = PyBool(FALSE)

\* C15: a cycle() whose off() returned true returns true and sends no ON
\* command; one whose off() returned false returns false whatever becomes
\* of its on(), and sends the ON command only after the confirmation of the
\* off and the pause.
C15_Cycle ==
    (ret.op = "cycle" /\ Places(ret.trail, "ret") # {}) =>
        LET t == ret.trail
            offed == First(Places(t, "ret"))
            ons == {i \in Places(t, "sent") : t[i].op = "ON"}
        IN IF t[offed].v = PyBool(TRUE)
           THEN /\ ret.kind = "return" /\ ret.val = PyBool(TRUE)
                /\ ons = {}
           ELSE /\ ret.kind = "return" /\ ret.val = PyBool(FALSE)
                /\ \A i \in ons : \E p \in Places(t, "sleep") : offed < p /\ p < i

\* the operation that returned did what it was asked: the confirmation of an
\* on, an off or the off of a cycle read the intended state, the name read
\* back by set_outlet_name is the name given
Succeeded ==
    LET reads == Places(ret.trail, "read") IN
    /\ reads # {}
    /\ CASE ret.op = "on" -> ret.trail[Latest(reads)].v = PyStr(ON)
         [] ret.op = "off" -> ret.trail[Latest(reads)].v = PyStr(OFF)
         [] ret.op = "cycle" -> ret.trail[First(reads)].v = PyStr(OFF)
         [] OTHER -> ret.trail[Latest(reads)].v = PyStr(ret.name)

\* C16: on, off, cycle and set_outlet_name return false when the operation
\* succeeded and true when it failed.
C16_InvertedConvention ==
    (ret.op \in {"on", "off", "cycle", "set_outlet_name"} /\ ret.kind = "return")
        => ret.val = PyBool(~Succeeded)

\* C17: with every request answered and nobody else touching the device,
\* get_outlet_name(k) right after a set_outlet_name(k, X) that reported
\* success (false) returns X.
C17_RoundTrip ==
    (ret.op = "get_outlet_name" /\ ret.clean
       /\ last.op = "set_outlet_name" /\ last.val = PyBool(FALSE))
        => (ret.kind = "return" /\ ret.val = PyStr(last.name))

\* C18: command_on_outlets with a list of one outlet runs the operation once
\* and returns what it returned, a bool or a string, unchanged.
C18_SingleRaw ==
    (ret.op = "command_on_outlets" /\ ret.kind = "return")
        => /\ Cardinality(Places(ret.trail, "raw")) = 1
           /\ ret.trail[Latest(Places(ret.trail, "raw"))].op = ret.command
           /\ ret.val = ret.trail[Latest(Places(ret.trail, "raw"))].v

\* C18 as amended: command_on_outlets with a list of one outlet runs the
\* operation once and returns its result unchanged if it is a bool, and a
\* list holding just that result otherwise (status, get_outlet_name).
C18_SingleBoolOrList ==
    (ret.op = "command_on_outlets" /\ ret.kind = "return")
        => LET raw == ret.trail[Latest(Places(ret.trail, "raw"))] IN
           /\ Cardinality(Places(ret.trail, "raw")) = 1
           /\ raw.op = ret.command
           /\ ret.val = IF raw.v \in {PyBool(TRUE), PyBool(FALSE)}
                        THEN raw.v ELSE PyList(<<raw.v>>)

C18_Witness ==
    /\ ret.op = "command_on_outlets" /\ ret.command = "status"
    /\ ret.arg = PyInt(1)
    /\ ret.val = PyList(<<PyStr(OFF)>>)

\* command_on_outlets of several outlets has ended and every worker returned
Gathered ==
    /\ ret.op = "command_on_outlets"
    /\ Len(pool.outlets) >= 2
    /\ \A i \in 1..Len(pool.results) :
          /\ pool.results[i].kind = "return"
          /\ pool.results[i].arg = pool.outlets[i]

\* C19: command_on_outlets of on, off or cycle on two or more outlets
\* returns true if the operation returned true for at least one outlet and
\* false if it returned false for all, in whatever order the workers made
\* their requests and ended.
C19_AnyFailure ==
    (Gathered /\ pool.command \in {"on", "off", "cycle"})
        => /\ ret.kind = "return"
           /\ ret.val = PyBool(\E i \in 1..Len(pool.results) :
                                  pool.results[i].val = PyBool(TRUE))

C19_Witness ==
    /\ Gathered
    /\ pool.command = "on"
    /\ pool.outlets = <<PyInt(1), PyInt(2), PyInt(3)>>
    /\ pool.results[1].val = PyBool(FALSE)
    /\ pool.results[2].val = PyBool(TRUE)
    /\ pool.results[3].val = PyBool(FALSE)
    /\ pool.order = <<3, 2, 1>>
    /\ ret.val = PyBool(TRUE)

\* C20: command_on_outlets of status or get_outlet_name on two or more
\* outlets returns a list with one result per outlet, the i-th being the
\* result for the i-th outlet of the list given, in whatever order the
\* workers ended.
C20_ResultsInOrder ==
    (Gathered /\ pool.command \in {"status", "get_outlet_name"})
        => /\ ret.kind = "return"
           /\ ret.val.t = "list"
           /\ Len(ret.val.v) = Len(pool.outlets)
           /\ \A i \in 1..Len(pool.outlets) : ret.val.v[i] = pool.results[i].val

C20_Witness ==
    /\ Gathered
    /\ pool.command = "status"
    /\ pool.outlets = <<PyInt(1), PyInt(2)>>
    /\ pool.order = <<2, 1>>
    /\ ret.val = PyList(<<PyStr(OFF), PyStr(ON)>>)

\* the workers of an ended command_on_outlets whose outlet did not resolve
Unresolved ==
    {i \in 1..Len(pool.results) :
        /\ pool.results[i].kind = "raise"
        /\ pool.results[i].val.cls = "DLIPowerException"}

\* C21: when one outlet of a command_on_outlets of several outlets fails to
\* resolve (unknown name, number out of range), the operations on the other
\* outlets still run to their end and command_on_outlets returns their
\* results to the caller.
C21_ResolutionFailureIsLocal ==
    (ret.op = "command_on_outlets" /\ Len(pool.outlets) >= 2 /\ Unresolved # {})
        => /\ \A j \in 1..Len(pool.results) : pool.results[j] # Pending
           /\ ret.kind = "return"
           /\ \A j \in (1..Len(pool.results)) \ Unresolved :
                 /\ ret.val.t = "list"
                 /\ \E k \in 1..Len(ret.val.v) : ret.val.v[k] = pool.results[j].val

\* C22: main() ends with a status other than zero when the on, off, cycle
\* or set_outlet_name it ran reported failure (it returned true, or it
\* raised, as for an outlet that does not resolve), and with status zero
\* when it reported success (it returned false).
C22_ExitCode ==
    (cli.exit # None /\ cli.operation \in {"on", "off", "cycle", "set_outlet_name"})
        => ((cli.exit # PyInt(0)) <=> (ret.kind = "raise" \/ ret.val = PyBool(TRUE)))

\* C23: an on, off, cycle or set_outlet_name that ends with the error of an
\* outlet that does not resolve has sent no outlet command and no rename
\* request to the device.
C23_NothingSentOnFailure ==
    (/\ ret.op \in {"on", "off", "cycle", "set_outlet_name"}
     /\ ret.kind = "raise"
     /\ ret.val.cls = "DLIPowerException")
        => Places(ret.trail, "sent") = {}

\* C24: the rename request of set_outlet_name names, after outname, the
\* number the outlet given resolved to, whether it was given as a number
\* or as the name of an outlet.
C24_RenameByNumber ==
    (ret.op = "set_outlet_name" /\ Places(ret.trail, "sent") # {})
        => LET sent == ret.trail[First(Places(ret.trail, "sent"))]
               resolved == ret.trail[First(Places(ret.trail, "resolved"))]
           IN /\ sent.op = "NAME"
              /\ sent.v = PyStr(str(resolved.v.v))

\* C25: secure_login, the session and base_url change only in a step of
\* login(), made by the constructor or by the caller: no step of geturl,
\* statuslist, len, determine_outlet, an operation on an outlet,
\* set_outlet_name or command_on_outlets changes them, whether its request
\* was answered or not, so a client that is not logged in stays so until
\* the caller calls login().
C25_OnlyLoginChangesSession ==
    [][(<<secure_login, session, base_url>>' # <<secure_login, session, base_url>>)
          => ret'.op \in {"__init__", "login"}]_vars

C25_Witness ==
    /\ constructed = "yes"
    /\ ~secure_login /\ session = "None"
    /\ ~answered
    /\ ret.op = "command_on_outlets"
    /\ pool.command = "on"
    /\ pool.outlets = <<PyStr(<<"A">>), PyInt(MaxOutlets)>>
    /\ ret.kind = "raise"

====
